---- MODULE Spec2Model ----
(***************************************************************************)
(* Model of algos/classification/classifier.py: the Classifier controller  *)
(* (train / test / save / load), its counters, the model's train/eval      *)
(* mode, gradient accumulation and the records published to the dashboard. *)
(* Tensors are abstracted: the parameters are the number of optimizer      *)
(* updates applied to them, the accumulated gradient is the number of      *)
(* backward passes since the last zero_grad, a batch's output is one logit.*)
(***************************************************************************)
EXTENDS Integers, Sequences, FiniteSets, TLC

\* ------------------------------------------------------------------ bounds
MaxN == 3            \* longest training loader (batches)
MaxV == 2            \* longest validation loader (batches)
MaxL == 2            \* longest test loader (batches)
MaxAcc == 2          \* largest hps.acc_grad_steps
MaxEvery == 2        \* largest hps.eval_every
MaxWork == 5         \* length of a run: calls made plus batches given to them
MaxK == 1            \* largest epoch argument given to save / load
MaxLogit == 1        \* logits range over -MaxLogit..MaxLogit
MaxLvl == 4          \* integer DEBUG_LVL values range over -1..MaxLvl

ClipNorms == {-1, 0, 1}
Logits == (0 - MaxLogit)..MaxLogit

VARIABLES
    debug_lvl,       \* module global debug_lvl (DEBUG is debug_lvl >= 2)
    hps,             \* self.hps: acc_grad_steps, eval_every, clip_norm
    iters_so_far,    \* self.iters_so_far
    epochs_so_far,   \* self.epochs_so_far
    training,        \* self.model.training: TRUE train-mode, FALSE eval-mode
    params,          \* self.model parameters (updates applied since init)
    grads,           \* backward passes accumulated since the last zero_grad
    opt_state,       \* self.opt state (optimizer steps taken)
    scaler_state,    \* self.scaler state (scaler updates done)
    files,           \* checkpoint files under path: file name -> content
    pc,              \* position of the caller / of the running method
    i,               \* enumerate index of the running train() / test() loop
    N,               \* len(train_dataloader) of the running train(), or of
                     \* the loader of the running test()
    V,               \* number of batches of val_dataloader
    v_it,            \* position of the current pass over val_dataloader
    v_idx,           \* validation batch paired with training batch i
    t_loss,          \* the loss tensor of training batch i, which both
                     \* t_loss and t_metrics['loss'] name
    pred_y,          \* last prediction handed to the metrics collaborator
    events,          \* framework calls made by the running / last call
    dash,            \* records published by the running / last call
    exc,             \* exception raised by the last call, "none" if none
    last_call,       \* the last call made by the caller
    work,            \* calls made so far plus batches given to them
    raised,          \* history: some call has raised
    saved,           \* history: epoch argument -> parameters at the last
                     \* save() called with it
    sum_n,           \* history: batches of the train() calls made
    n_train,         \* history: train() calls made
    last_step        \* history: step of the last record published

vars == <<debug_lvl, hps, iters_so_far, epochs_so_far, training, params, grads,
          opt_state, scaler_state, files, pc, i, N, V, v_it, v_idx, t_loss,
          pred_y, events, dash, exc, last_call, work, raised, saved, sum_n,
          n_train, last_step>>

obj == <<iters_so_far, epochs_so_far, training, params, grads, opt_state,
         scaler_state>>
loop == <<i, N, V, v_it, v_idx, t_loss>>
hist == <<raised, saved, sum_n, n_train, last_step>>
conf == <<debug_lvl, hps>>

\* ------------------------------------------------------- module load time
\* os.environ.get('DEBUG_LVL', 0): unset, a string that int() parses, or one
\* that it does not.
EnvValues ==
    {[kind |-> "unset", val |-> 0], [kind |-> "nonint", val |-> 0]}
        \cup {[kind |-> "int", val |-> v] : v \in (0 - 1)..MaxLvl}

\* Mutant: the level is clamped from below only.
ClipNoUpper(x, lo, hi) == IF x < lo THEN lo ELSE x

\* np.clip(x, a_min=lo, a_max=hi)
Clip(x, lo, hi) == IF x < lo THEN lo ELSE IF x > hi THEN hi ELSE x

DebugLvl(env) ==
    CASE env.kind = "unset" -> Clip(0, 0, 3)
      [] env.kind = "int" -> Clip(env.val, 0, 3)
      [] OTHER -> 0

DEBUG == debug_lvl >= 2

\* ------------------------------------------------------------- helpers
\* A tensor holding a loss: the criterion's value on batch `batch`, divided
\* by `den`.
NoLoss == [batch |-> 0, den |-> 0]

\* compute_loss: loss = self.criterion(pred_y, true_y), also metrics['loss']
ComputeLoss(b) == [batch |-> b, den |-> 1]

\* t_loss /= d: the tensor is divided in place
DivInPlace(t, d) == [t EXCEPT !.den = t.den * d]

\* A framework call, with the loop index, the mode, the number of backward
\* passes accumulated and the divisor of the current training loss.
Event(op) == [op |-> op, i |-> i, training |-> training, grads |-> grads,
              div |-> t_loss.den]

\* The names of the metrics of a phase: 'loss' from compute_loss, and for
\* an evaluation block what compute_classif_eval_metrics adds.
MetricNames(mode) == IF mode = "train" THEN {"loss"} ELSE {"loss", "score"}

\* Mutant: the record is keyed by the epoch count.
RecordKeyedByEpoch(mode, loss) ==
    [mode |-> mode, keys |-> {<<mode, k>> : k \in MetricNames(mode)},
     loss |-> loss, step |-> epochs_so_far, epoch |-> epochs_so_far]

\* send_to_dash(metrics, mode): the record handed to wandb.log; the key
\* f"{mode}/{k}" is the pair <<mode, k>>.
Record(mode, loss) ==
    [mode |-> mode, keys |-> {<<mode, k>> : k \in MetricNames(mode)},
     loss |-> loss, step |-> iters_so_far, epoch |-> epochs_so_far]

\* Mutant: the step on the final batch of the epoch is forgotten.
AccBoundaryNoFinal ==
    (i + 1) % hps.acc_grad_steps = 0

\* (i + 1) % acc_grad_steps == 0 or i + 1 == len(train_dataloader)
AccBoundary ==
    ((i + 1) % hps.acc_grad_steps = 0) \/ (i + 1 = N)

\* Mutant: the validation interval is tested on i instead of i + 1.
EvalBoundaryOffByOne ==
    (i % hps.eval_every = 0) \/ (i + 1 = N)

\* (i + 1) % eval_every == 0 or i + 1 == len(train_dataloader)
EvalBoundary ==
    ((i + 1) % hps.eval_every = 0) \/ (i + 1 = N)

\* Mutant: the validation loader is not restarted once exhausted.
ValNextNoRestart(it, v) == [idx |-> it, it |-> it + 1]

\* next() of itertools.chain.from_iterable(itertools.repeat(val_dataloader))
\* when val_dataloader has v >= 1 batches and the current pass is at `it`.
ValNext(it, v) ==
    IF it < v THEN [idx |-> it, it |-> it + 1]
              ELSE [idx |-> 0, it |-> 1]

NoPred == [mode |-> "none", logit |-> 0, class |-> 0]

\* Mutant: a logit of exactly 0 is classified 1.
ThresholdAtZero(logit) == IF logit >= 0 THEN 1 ELSE 0

\* Mutant: the gradients are not zeroed after the step.
GradsKept(g) == g

\* self.opt.zero_grad(): the accumulated gradient after it
ZeroGrad(g) == g - g

\* Mutant: the iteration counter counts optimizer steps, not batches.
ItersOnStep(n) == IF AccBoundary THEN n + 1 ELSE n

\* self.iters_so_far += 1
ItersIncr(n) == n + 1

\* v_pred_y = (v_pred_y > 0.).long() in train()
ValThreshold(logit) == IF logit > 0 THEN 1 ELSE 0

\* pred_y = (pred_y > 0.).long() in test()
TestThreshold(logit) == IF logit > 0 THEN 1 ELSE 0

\* The thresholding line of the evaluation block of `mode`.
Classify(mode, logit) ==
    IF mode = "val" THEN ValThreshold(logit) ELSE TestThreshold(logit)

\* A call starts with no local of an earlier call and nothing recorded.
Fresh ==
    /\ i' = 0 /\ N' = 0 /\ V' = 0 /\ v_it' = 0 /\ v_idx' = 0
    /\ t_loss' = NoLoss
    /\ pred_y' = NoPred
    /\ events' = <<>>
    /\ dash' = <<>>

Raise(e) ==
    /\ pc' = "idle"
    /\ exc' = e
    /\ raised' = TRUE

\* ------------------------------------------------------------------ Init
\* The object __init__ builds and the state of a process that made no call.
InitObject ==
    /\ hps \in [acc_grad_steps : 1..MaxAcc, eval_every : 1..MaxEvery,
                clip_norm : ClipNorms]
    /\ iters_so_far = 0
    /\ epochs_so_far = 0
    /\ training = TRUE
    /\ params = 0
    /\ grads = 0
    /\ opt_state = 0
    /\ scaler_state = 0
    /\ files = <<>>
    /\ i = 0 /\ N = 0 /\ V = 0 /\ v_it = 0 /\ v_idx = 0
    /\ t_loss = NoLoss
    /\ pred_y = NoPred
    /\ events = <<>>
    /\ dash = <<>>
    /\ exc = "none"
    /\ last_call = [op |-> "init", arg |-> 0]
    /\ work = 0
    /\ raised = FALSE
    /\ saved = <<>>
    /\ sum_n = 0
    /\ n_train = 0
    /\ last_step = 0

Init ==
    /\ \E env \in EnvValues : debug_lvl = DebugLvl(env)
    /\ pc = "idle"
    /\ InitObject

\* ----------------------------------------------------------------- train
\* train(train_dataloader, val_dataloader) is entered: the zip is built.
TrainCall(n, v) ==
    /\ pc = "idle"
    /\ work + 1 + n <= MaxWork
    /\ work' = work + 1 + n
    /\ last_call' = [op |-> "train", arg |-> n]
    /\ pc' = "zip"
    /\ i' = 0 /\ N' = n /\ V' = v /\ v_it' = 0 /\ v_idx' = 0
    /\ t_loss' = NoLoss
    /\ events' = <<>>
    /\ dash' = <<>>
    /\ exc' = "none"
    /\ sum_n' = sum_n + n
    /\ n_train' = n_train + 1
    /\ pred_y' = NoPred
    /\ UNCHANGED <<obj, conf, files, raised, saved, last_step>>

\* The zip yields the next (train batch, validation batch) pair.
ZipNext ==
    /\ pc = "zip"
    /\ i < N
    /\ V > 0
    /\ v_idx' = ValNext(v_it, V).idx
    /\ v_it' = ValNext(v_it, V).it
    /\ pc' = "fwd"
    /\ UNCHANGED <<obj, conf, files, i, N, V, t_loss, pred_y, events, dash,
                   exc, last_call, work, hist>>

\* A training batch is there but the repeated validation loader is empty:
\* the chain asks the empty loader for a batch again and again.
ZipHang ==
    /\ pc = "zip"
    /\ i < N
    /\ V = 0
    /\ pc' = "hung"
    /\ UNCHANGED <<obj, conf, files, loop, pred_y, events, dash, exc,
                   last_call, work, hist>>

\* The training loader is exhausted: the loop ends and train() returns.
TrainReturn ==
    /\ pc = "zip"
    /\ i >= N
    /\ epochs_so_far' = epochs_so_far + 1
    /\ pc' = "idle"
    /\ UNCHANGED <<iters_so_far, training, params, grads, opt_state,
                   scaler_state, conf, files, loop, pred_y, events, dash, exc,
                   last_call, work, hist>>

\* compute_loss, t_loss /= acc_grad_steps, scaler.scale(t_loss).backward()
TrainBackward ==
    /\ pc = "fwd"
    /\ \/ /\ t_loss' = DivInPlace(ComputeLoss(i), hps.acc_grad_steps)
          /\ grads' = grads + 1
          /\ events' = Append(events,
                              [Event("backward") EXCEPT !.div = t_loss'.den])
          /\ pc' = "opt"
          /\ UNCHANGED <<exc, raised>>
       \/ /\ Raise("forward")
          /\ UNCHANGED <<t_loss, grads, events>>
    /\ UNCHANGED <<iters_so_far, epochs_so_far, training, params, opt_state,
                   scaler_state, conf, files, i, N, V, v_it, v_idx, pred_y,
                   dash, last_call, work, saved, sum_n, n_train, last_step>>

\* Mutant: the gradients are zeroed before the optimizer steps.
OptOpsZeroFirst ==
    (IF hps.clip_norm > 0 THEN <<Event("unscale"), Event("clip")>> ELSE <<>>)
        \o <<Event("zero_grad"), Event("step"), Event("update")>>

\* Mutant: clipping is on for clip_norm = 0 too.
OptOpsClipAtZero ==
    (IF hps.clip_norm >= 0 THEN <<Event("unscale"), Event("clip")>> ELSE <<>>)
        \o <<Event("step"), Event("update"), Event("zero_grad")>>

\* The framework calls of an accumulation boundary, in the code's order.
OptOps ==
    (IF hps.clip_norm > 0 THEN <<Event("unscale"), Event("clip")>> ELSE <<>>)
        \o <<Event("step"), Event("update"), Event("zero_grad")>>

\* The accumulation boundary: clip, scaler.step, scaler.update, zero_grad,
\* then send_to_dash(t_metrics, mode='train').
OptStep ==
    /\ pc = "opt"
    /\ AccBoundary
    /\ params' = params + 1
    /\ opt_state' = opt_state + 1
    /\ scaler_state' = scaler_state + 1
    /\ grads' = ZeroGrad(grads)
    /\ \/ /\ events' = events \o OptOps \o <<Event("send_train")>>
          /\ dash' = Append(dash, Record("train", t_loss))
          /\ last_step' = iters_so_far
          /\ pc' = "evalchk"
          /\ UNCHANGED <<exc, raised>>
       \/ /\ events' = events \o OptOps
          /\ Raise("publish")
          /\ UNCHANGED <<dash, last_step>>
    /\ UNCHANGED <<iters_so_far, epochs_so_far, training, conf, files, loop,
                   pred_y, last_call, work, saved, sum_n, n_train>>

OptSkip ==
    /\ pc = "opt"
    /\ ~AccBoundary
    /\ pc' = "evalchk"
    /\ UNCHANGED <<obj, conf, files, loop, pred_y, events, dash, exc,
                   last_call, work, hist>>

\* self.model.eval() at the start of the validation block
ValEnter ==
    /\ pc = "evalchk"
    /\ EvalBoundary
    /\ training' = FALSE
    /\ events' = Append(events, Event("eval"))
    /\ pc' = "val"
    /\ UNCHANGED <<iters_so_far, epochs_so_far, params, grads, opt_state,
                   scaler_state, conf, files, loop, pred_y, dash, exc,
                   last_call, work, hist>>

ValSkip ==
    /\ pc = "evalchk"
    /\ ~EvalBoundary
    /\ pc' = "dbg"
    /\ UNCHANGED <<obj, conf, files, loop, pred_y, events, dash, exc,
                   last_call, work, hist>>

\* The body of an evaluation block (validation or test): forward pass,
\* threshold, metrics collaborator, send_to_dash. Any of the three may raise.
EvalBody(mode, next) ==
    \/ /\ Raise("forward")
       /\ UNCHANGED <<pred_y, events, dash, last_step>>
    \/ \E logit \in Logits :
        /\ pred_y' = [mode |-> mode, logit |-> logit,
                      class |-> Classify(mode, logit)]
        /\ \/ /\ events' = events \o
                      <<Event("forward_" \o mode), Event("send_" \o mode)>>
              /\ dash' = Append(dash, Record(mode, ComputeLoss(
                              IF mode = "val" THEN v_idx ELSE i)))
              /\ last_step' = iters_so_far
              /\ pc' = next
              /\ UNCHANGED <<exc, raised>>
           \/ /\ events' = Append(events, Event("forward_" \o mode))
              /\ \E e \in {"metrics", "publish"} : Raise(e)
              /\ UNCHANGED <<dash, last_step>>

ValBody ==
    /\ pc = "val"
    /\ EvalBody("val", "valexit")
    /\ UNCHANGED <<obj, conf, files, loop, last_call, work, saved, sum_n, n_train>>

\* Mutant: the validation block ends without self.model.train().
ValExitNoTrain ==
    /\ pc = "valexit"
    /\ pred_y' = NoPred
    /\ pc' = "dbg"
    /\ UNCHANGED <<obj, conf, files, loop, events, dash, exc, last_call,
                   work, hist>>

\* self.model.train() at the end of the validation block
ValExit ==
    /\ pc = "valexit"
    /\ training' = TRUE
    /\ events' = Append(events, Event("train"))
    /\ pred_y' = NoPred
    /\ pc' = "dbg"
    /\ UNCHANGED <<iters_so_far, epochs_so_far, params, grads, opt_state,
                   scaler_state, conf, files, loop, dash, exc,
                   last_call, work, hist>>

\* if DEBUG: self.scheduler.get_last_lr() -- no scheduler attribute exists
DebugFail ==
    /\ pc = "dbg"
    /\ DEBUG
    /\ Raise("AttributeError")
    /\ UNCHANGED <<obj, conf, files, loop, pred_y, events, dash, last_call,
                   work, saved, sum_n, n_train, last_step>>

\* self.iters_so_far += 1, and the loop goes to its next index
IterIncr ==
    /\ pc = "dbg"
    /\ ~DEBUG
    /\ iters_so_far' = ItersIncr(iters_so_far)
    /\ i' = i + 1
    /\ pc' = "zip"
    /\ UNCHANGED <<epochs_so_far, training, params, grads, opt_state,
                   scaler_state, conf, files, N, V, v_it, v_idx, t_loss,
                   pred_y, events, dash, exc, last_call, work, hist>>

\* ------------------------------------------------------------------ test
\* test(dataloader) is entered: self.model.eval()
TestCall(l) ==
    /\ pc = "idle"
    /\ work + 1 + l <= MaxWork
    /\ work' = work + 1 + l
    /\ last_call' = [op |-> "test", arg |-> l]
    /\ training' = FALSE
    /\ pc' = "test"
    /\ i' = 0 /\ N' = l /\ V' = 0 /\ v_it' = 0 /\ v_idx' = 0
    /\ t_loss' = NoLoss
    /\ events' = <<[op |-> "eval", i |-> 0, training |-> training,
                    grads |-> grads, div |-> NoLoss.den]>>
    /\ dash' = <<>>
    /\ exc' = "none"
    /\ pred_y' = NoPred
    /\ UNCHANGED <<iters_so_far, epochs_so_far, params, grads, opt_state,
                   scaler_state, conf, files, hist>>

\* Mutant: test() counts its batches in iters_so_far as train() does.
TestBatchCounting ==
    /\ pc = "test"
    /\ i < N
    /\ EvalBody("test", "test")
    /\ i' = IF pc' = "test" THEN i + 1 ELSE i
    /\ iters_so_far' = iters_so_far + 1
    /\ UNCHANGED <<epochs_so_far, training, params, grads, opt_state,
                   scaler_state, conf, files, N, V, v_it, v_idx, t_loss,
                   last_call, work, saved, sum_n, n_train>>

\* One batch of the loop of test()
TestBatch ==
    /\ pc = "test"
    /\ i < N
    /\ EvalBody("test", "test")
    /\ i' = IF pc' = "test" THEN i + 1 ELSE i
    /\ UNCHANGED <<obj, conf, files, N, V, v_it, v_idx, t_loss, last_call,
                   work, saved, sum_n, n_train>>

\* The loader is exhausted: self.model.train(), and test() returns.
TestReturn ==
    /\ pc = "test"
    /\ i >= N
    /\ training' = TRUE
    /\ events' = Append(events, Event("train"))
    /\ pred_y' = NoPred
    /\ pc' = "idle"
    /\ UNCHANGED <<iters_so_far, epochs_so_far, params, grads, opt_state,
                   scaler_state, conf, files, loop, dash, exc, last_call,
                   work, hist>>

\* ----------------------------------------------------------- save / load
\* Mutant: the file is named after the object's own epochs_so_far.
FileNameOwnEpoch(epoch) == <<"model_", epochs_so_far, ".tar">>

\* Path(path) / f"model_{epochs_so_far}.tar"
FileName(epoch) == <<"model_", epoch, ".tar">>

\* self.model.state_dict()
StateDict == [weights |-> params]

\* The files with `name` written (created or overwritten) with `content`.
Written(fs, name, content) ==
    [f \in DOMAIN fs \cup {name} |-> IF f = name THEN content ELSE fs[f]]

\* save(path, epochs_so_far): torch.save(self.model.state_dict(), dest)
Save(epoch) ==
    /\ pc = "idle"
    /\ work < MaxWork
    /\ work' = work + 1
    /\ last_call' = [op |-> "save", arg |-> epoch]
    /\ files' = Written(files, FileName(epoch), StateDict)
    /\ saved' = Written(saved, epoch, params)
    /\ exc' = "none"
    /\ Fresh
    /\ UNCHANGED <<obj, conf, pc, raised, sum_n, n_train, last_step>>

\* load(path, epochs_so_far): load_state_dict(torch.load(orig)); torch.load
\* raises when the file does not exist.
Load(epoch) ==
    /\ pc = "idle"
    /\ work < MaxWork
    /\ work' = work + 1
    /\ last_call' = [op |-> "load", arg |-> epoch]
    /\ IF FileName(epoch) \in DOMAIN files
          THEN /\ params' = files[FileName(epoch)].weights
               /\ exc' = "none"
               /\ UNCHANGED raised
          ELSE /\ exc' = "FileNotFoundError"
               /\ raised' = TRUE
               /\ UNCHANGED params
    /\ Fresh
    /\ UNCHANGED <<iters_so_far, epochs_so_far, training, grads, opt_state,
                   scaler_state, conf, files, pc, saved, sum_n, n_train,
                   last_step>>

\* Classifier(device, hps): a new object replaces the one in use; the
\* files stay.
Construct ==
    /\ pc = "idle"
    /\ work < MaxWork
    /\ work' = work + 1
    /\ last_call' = [op |-> "init", arg |-> 0]
    /\ iters_so_far' = 0
    /\ epochs_so_far' = 0
    /\ training' = TRUE
    /\ params' = 0
    /\ grads' = 0
    /\ opt_state' = 0
    /\ scaler_state' = 0
    /\ exc' = "none"
    /\ raised' = FALSE
    /\ sum_n' = 0
    /\ n_train' = 0
    /\ last_step' = 0
    /\ Fresh
    /\ UNCHANGED <<debug_lvl, hps, files, pc, saved>>

Next ==
    \/ \E n \in 0..MaxN, v \in 0..MaxV : TrainCall(n, v)
    \/ ZipNext
    \/ ZipHang
    \/ TrainReturn
    \/ TrainBackward
    \/ OptStep
    \/ OptSkip
    \/ ValEnter
    \/ ValSkip
    \/ ValBody
    \/ ValExit
    \/ DebugFail
    \/ IterIncr
    \/ \E l \in 0..MaxL : TestCall(l)
    \/ TestBatch
    \/ TestReturn

Spec == Init /\ [][Next]_vars

\* ---------------------------------------------------------- module load
\* debug_lvl = os.environ.get('DEBUG_LVL', 0): the module is being imported
\* and debug_lvl holds the raw value of the environment.
InitEnv ==
    /\ debug_lvl \in EnvValues
    /\ pc = "import"
    /\ InitObject

\* try: debug_lvl = np.clip(int(debug_lvl), 0, 3); except ValueError: 0
ModuleLoad ==
    /\ pc = "import"
    /\ debug_lvl' = DebugLvl(debug_lvl)
    /\ pc' = "idle"
    /\ last_call' = [op |-> "import", arg |-> debug_lvl]
    /\ UNCHANGED <<obj, hps, files, loop, pred_y, events, dash, exc, work,
                   hist>>

NextEnv ==
    \/ ModuleLoad
    \/ Next

SpecEnv == InitEnv /\ [][NextEnv]_vars

\* ---------------------------------------------------------- checkpoints
\* save() and load() read no hyperparameter: the runs with checkpoint
\* operations are explored on one configuration of them.
InitCkpt ==
    /\ Init
    /\ hps = [acc_grad_steps |-> 2, eval_every |-> 2, clip_norm |-> 1]

NextCkpt ==
    \/ Next
    \/ \E k \in 0..MaxK : Save(k)
    \/ \E k \in 0..MaxK : Load(k)
    \/ Construct

SpecCkpt == InitCkpt /\ [][NextCkpt]_vars

\* ================================================================ claims
\* The framework calls `op` recorded at loop index k of the last call.
Count(op, k) ==
    Cardinality({j \in 1..Len(events) : events[j].op = op /\ events[j].i = k})

Steps == {j \in 1..Len(events) : events[j].op = "step"}

InTrain == last_call.op = "train"
InTest == last_call.op = "test"

\* Loop index k of the running train() is past its accumulation-boundary test.
PastOpt(k) ==
    \/ k < i
    \/ k = i /\ pc \in {"evalchk", "val", "valexit", "dbg"}

Returned == pc = "idle" /\ exc = "none"

\* ---------------------------------------------------------------------
\* C1: in one train() call over N batches the optimizer step (scaler.step,
\* scaler.update, zero_grad) runs at batch k exactly once when
\* (k+1) % acc_grad_steps = 0 or k+1 = N, and not at all at any other batch.
C1_StepExactlyAtBoundaries ==
    InTrain =>
        \A k \in 0..(N - 1) :
            LET due == ((k + 1) % hps.acc_grad_steps = 0) \/ (k + 1 = N)
            IN  /\ Count("step", k) <= 1
                /\ Count("step", k) = 1 => due
                /\ PastOpt(k) => (due => Count("step", k) = 1)
                /\ Count("update", k) = Count("step", k)
                /\ Count("zero_grad", k) = Count("step", k)

\* train() returned from a one-batch loader with acc_grad_steps = 2 > N, and
\* the step forced on the final batch was taken.
C1_Witness ==
    /\ InTrain /\ Returned
    /\ N = 1 /\ i = 1
    /\ hps.acc_grad_steps = 2
    /\ Count("step", 0) = 1

\* ---------------------------------------------------------------------
\* C2: as long as every call returned normally, each optimizer step applies
\* exactly acc_grad_steps accumulated backward passes, or between 1 and
\* acc_grad_steps of them when it is the step forced on the final batch;
\* nothing is left accumulated when train() returns or when it starts.
C2_AccumulationGroups ==
    (~raised /\ InTrain) =>
        /\ \A j \in Steps :
              /\ (events[j].i + 1) % hps.acc_grad_steps = 0
                    => events[j].grads = hps.acc_grad_steps
              /\ \/ events[j].grads = hps.acc_grad_steps
                 \/ /\ events[j].i + 1 = N
                    /\ events[j].grads \in 1..hps.acc_grad_steps
        /\ pc = "idle" => grads = 0
        /\ (pc = "zip" /\ i = 0) => grads = 0
        /\ (pc = "fwd") => grads = i % hps.acc_grad_steps

\* The second epoch applied a full group of two passes right after a first
\* epoch that ended on a forced step of one pass.
C2_Witness ==
    /\ ~raised /\ InTrain /\ Returned
    /\ n_train = 2 /\ sum_n = 3 /\ N = 2
    /\ hps.acc_grad_steps = 2
    /\ \E j \in Steps : events[j].i = 1 /\ events[j].grads = 2

\* ---------------------------------------------------------------------
\* C3: iters_so_far and epochs_so_far start at 0, never decrease and move
\* by one at a time; while every call returns normally iters_so_far is the
\* number of batch pairs processed so far and epochs_so_far the number of
\* train() loops completed, so after k calls they are N_1 + ... + N_k and k.
C3_CountersNow ==
    ~raised =>
        IF InTrain /\ pc # "idle"
        THEN /\ iters_so_far = (sum_n - N) + i
             /\ epochs_so_far = n_train - 1
        ELSE /\ iters_so_far = sum_n
             /\ epochs_so_far = n_train

C3_CountersStep ==
    /\ iters_so_far' \in {iters_so_far, iters_so_far + 1}
    /\ epochs_so_far' \in {epochs_so_far, epochs_so_far + 1}
    /\ iters_so_far' = iters_so_far + 1 <=> (pc = "dbg" /\ pc' = "zip")
    /\ epochs_so_far' = epochs_so_far + 1 <=> (pc = "zip" /\ pc' = "idle")

C3_Counters ==
    /\ iters_so_far = 0 /\ epochs_so_far = 0
    /\ []C3_CountersNow
    /\ [][C3_CountersStep]_vars

\* Two train() calls over 2 and 1 batches returned; the first batch of the
\* first call triggered neither an optimizer step nor a validation.
C3_Witness ==
    /\ ~raised /\ Returned /\ InTrain
    /\ n_train = 2 /\ sum_n = 3
    /\ hps.acc_grad_steps = 2 /\ hps.eval_every = 2
    /\ iters_so_far = 3 /\ epochs_so_far = 2

\* ---------------------------------------------------------------------
\* C4: with a validation loader of V >= 1 batches, training batch i is
\* paired with validation batch i mod V, and the pairing never fails for
\* lack of a validation batch.
C4_ValidationCycles ==
    /\ (InTrain /\ pc \in {"fwd", "opt", "evalchk", "val", "valexit", "dbg"})
          => (V >= 1 /\ v_idx = i % V /\ v_idx < V)
    /\ (InTrain /\ Returned /\ V >= 1) =>
          \A k \in 0..(N - 1) : Count("backward", k) = 1
    /\ exc # "StopIteration"

\* The third training batch is paired with the first batch of a restarted
\* two-batch validation loader.
C4_Witness ==
    /\ InTrain /\ pc = "fwd"
    /\ N = 3 /\ V = 2 /\ i = 2
    /\ v_idx = 0

\* ---------------------------------------------------------------------
\* C5: the model is in train-mode or in eval-mode; while every call returns
\* normally it is in train-mode between calls and in every training
\* forward/backward pass, and in eval-mode in every validation and test
\* forward pass; eval-mode is entered only at the start of a validation block
\* or of test(), and left only at its end.
C5_ModesNow ==
    /\ training \in BOOLEAN
    /\ ~raised =>
          /\ pc \in {"idle", "zip", "fwd", "opt", "evalchk", "dbg", "hung"}
                => training
          /\ pc \in {"val", "valexit", "test"} => ~training
          /\ \A j \in 1..Len(events) :
                /\ events[j].op = "backward" => events[j].training
                /\ events[j].op \in {"forward_val", "forward_test"}
                      => ~events[j].training

C5_ModesStep ==
    /\ (training /\ ~training') =>
          \/ pc = "evalchk" /\ pc' = "val"
          \/ pc = "idle" /\ pc' = "test"
    /\ (~training /\ training') =>
          \/ pc = "valexit" /\ pc' = "dbg"
          \/ pc = "test" /\ i >= N /\ pc' = "idle"

C5_Modes == []C5_ModesNow /\ [][C5_ModesStep]_vars

\* A test() over one batch returned after a train() call that validated,
\* and the model is in train-mode.
C5_Witness ==
    /\ ~raised /\ Returned /\ InTest
    /\ N = 1 /\ i = 1
    /\ n_train = 1 /\ iters_so_far >= 1
    /\ training

\* ---------------------------------------------------------------------
\* C6: after test() or the validation portion of train() the model is back
\* in train-mode even when an exception raised inside the evaluation block
\* reached the caller, so that no later training backward pass runs in
\* eval-mode.
C6_TrainModeAfterException ==
    /\ (pc = "idle" /\ (InTrain \/ InTest)) => training
    /\ \A j \in 1..Len(events) :
          events[j].op = "backward" => events[j].training

\* ---------------------------------------------------------------------
\* C7: with clip_norm <= 0 train() never calls the clipping routine and
\* still steps the optimizer at every accumulation boundary; with
\* clip_norm > 0 it clips exactly once at every accumulation boundary and at
\* no other batch.
C7_ClipOnlyWhenEnabled ==
    InTrain =>
        \A k \in 0..(N - 1) :
            LET due == ((k + 1) % hps.acc_grad_steps = 0) \/ (k + 1 = N)
            IN  /\ hps.clip_norm <= 0 =>
                      /\ Count("clip", k) = 0
                      /\ Count("unscale", k) = 0
                /\ hps.clip_norm > 0 =>
                      /\ Count("clip", k) = Count("step", k)
                      /\ Count("clip", k) <= 1
                      /\ Count("clip", k) = 1 => due
                /\ (PastOpt(k) /\ due) => Count("step", k) = 1

\* train() returned from two batches with clip_norm = 0: the optimizer
\* stepped and nothing was clipped.
C7_Witness ==
    /\ InTrain /\ Returned
    /\ hps.clip_norm = 0
    /\ N = 2 /\ i = 2
    /\ Count("step", 1) = 1
    /\ Count("clip", 1) = 0

\* ---------------------------------------------------------------------
\* C8: load(path, k) succeeds exactly when save(path, k) was called before
\* with the same epoch argument, whatever the epochs_so_far of either
\* object, and then makes the parameters equal to those saved last under k;
\* load changes nothing but the parameters and save changes nothing of the
\* object.
C8_LoadNow ==
    last_call.op = "load" =>
        /\ exc = "none" <=> last_call.arg \in DOMAIN saved
        /\ exc = "none" => params = saved[last_call.arg]

C8_LoadStep ==
    /\ (work' # work /\ last_call'.op = "load") =>
          UNCHANGED <<opt_state, scaler_state, iters_so_far, epochs_so_far,
                      grads, training, files>>
    /\ (work' # work /\ last_call'.op = "save") =>
          UNCHANGED <<params, opt_state, scaler_state, iters_so_far,
                      epochs_so_far, grads, training>>

C8_SaveLoadRoundTrip == []C8_LoadNow /\ [][C8_LoadStep]_vars

\* A freshly constructed object loaded the parameters that an object with
\* one optimizer step had saved: the parameters are the saved ones, the
\* optimizer, the scaler and the counters are those of a fresh object.
C8_Witness ==
    /\ last_call.op = "load" /\ exc = "none"
    /\ params = saved[last_call.arg] /\ params = 1
    /\ opt_state = 0 /\ scaler_state = 0
    /\ iters_so_far = 0 /\ epochs_so_far = 0

\* ---------------------------------------------------------------------
\* C9: the class handed to the metrics collaborator, in the validation
\* block and in test() alike, is 1 when the logit is strictly greater than
\* 0 and 0 otherwise.
C9_ThresholdAtZero ==
    pred_y.mode \in {"val", "test"} =>
        pred_y.class = (IF pred_y.logit > 0 THEN 1 ELSE 0)

\* test() classified a logit of exactly 0 as class 0.
C9_Witness ==
    /\ pred_y.mode = "test"
    /\ pred_y.logit = 0
    /\ pred_y.class = 0

\* ---------------------------------------------------------------------
\* C10: test() publishes exactly one 'test' record per batch of a single
\* pass over its loader and runs no backward pass and no optimizer step;
\* neither test() nor the validation block of train() changes the
\* parameters, the accumulated gradients, the optimizer state, the scaler
\* state or the two counters.
C10_TestNow ==
    InTest =>
        /\ Len(dash) = i
        /\ i <= N
        /\ \A j \in 1..Len(dash) : dash[j].mode = "test"
        /\ Returned => Len(dash) = N
        /\ \A j \in 1..Len(events) :
              events[j].op \in {"eval", "forward_test", "send_test", "train"}

C10_EvalStep ==
    (pc \in {"test", "val", "valexit"} \/ pc' \in {"test", "val"}) =>
        UNCHANGED <<params, grads, opt_state, scaler_state, iters_so_far,
                    epochs_so_far>>

C10_EvaluationFrame == []C10_TestNow /\ [][C10_EvalStep]_vars

\* test() returned from a two-batch loader with two records published,
\* after a train() call that had moved the counters and the parameters.
C10_Witness ==
    /\ InTest /\ Returned
    /\ N = 2 /\ Len(dash) = 2
    /\ iters_so_far = 1 /\ epochs_so_far = 1 /\ params = 1

\* ---------------------------------------------------------------------
\* C11: at every optimizer step, the forced step on the final batch group
\* included, the divisor applied to the loss of the batch equals the number
\* of backward passes accumulated since the last zero_grad, so that the
\* step applies the average of the accumulated gradients (checked on runs
\* where no call has raised).
C11_DivisorIsGroupSize ==
    (~raised /\ InTrain) =>
        \A j \in Steps : events[j].div = events[j].grads

\* ---------------------------------------------------------------------
\* The training-side framework calls recorded at loop index k, in order.
OpsAt(k) ==
    LET sel == SelectSeq(events, LAMBDA e :
                   /\ e.i = k
                   /\ e.op \in {"backward", "unscale", "clip", "step",
                                "update", "zero_grad", "send_train"})
    IN  [j \in 1..Len(sel) |-> sel[j].op]

AccDue(k) == ((k + 1) % hps.acc_grad_steps = 0) \/ (k + 1 = N)

\* C12 as stated: at every accumulation boundary, for every clip_norm, the
\* calls are, each once and in this order: backward, unscale, clip (only
\* when clip_norm > 0), step, update, zero_grad, publish.
C12_UnscaleAtEveryBoundary ==
    InTrain =>
        \A k \in 0..(N - 1) :
            (PastOpt(k) /\ AccDue(k)) =>
                OpsAt(k) = <<"backward", "unscale">>
                    \o (IF hps.clip_norm > 0 THEN <<"clip">> ELSE <<>>)
                    \o <<"step", "update", "zero_grad", "send_train">>

\* C12 amended: at every accumulation boundary the calls are, each once and
\* in this order: backward, then unscale and clip (both only when
\* clip_norm > 0), step, update, zero_grad, publish.
C12_BoundaryOrder ==
    InTrain =>
        \A k \in 0..(N - 1) :
            (PastOpt(k) /\ AccDue(k)) =>
                OpsAt(k) = <<"backward">>
                    \o (IF hps.clip_norm > 0 THEN <<"unscale", "clip">>
                                             ELSE <<>>)
                    \o <<"step", "update", "zero_grad", "send_train">>

\* train() returned with clip_norm = 0 and its boundary ran without unscale.
C12_Witness ==
    /\ InTrain /\ Returned
    /\ hps.clip_norm = 0
    /\ N = 2 /\ i = 2
    /\ OpsAt(1) = <<"backward", "step", "update", "zero_grad", "send_train">>

\* ---------------------------------------------------------------------
\* Loop index k of the running train() is past its validation test.
PastEval(k) ==
    \/ k < i
    \/ k = i /\ pc = "dbg"

EvalDue(k) == ((k + 1) % hps.eval_every = 0) \/ (k + 1 = N)

\* C13: in one train() call over N batches the validation block (eval-mode
\* forward on the paired validation batch, one 'val' publish, back to
\* train-mode) runs at batch k exactly when (k+1) % eval_every = 0 or
\* k+1 = N, whether or not the optimizer stepped at k; at a batch where both
\* happen, the optimizer step and the 'train' publish come first.
C13_ValidationAtBoundaries ==
    InTrain =>
        /\ \A k \in 0..(N - 1) :
              /\ Count("eval", k) <= 1
              /\ Count("eval", k) = 1 => EvalDue(k)
              /\ Count("forward_val", k) <= Count("eval", k)
              /\ Count("send_val", k) <= Count("forward_val", k)
              /\ PastEval(k) =>
                    /\ EvalDue(k) => Count("eval", k) = 1
                    /\ Count("forward_val", k) = Count("eval", k)
                    /\ Count("send_val", k) = Count("eval", k)
                    /\ Count("train", k) = Count("eval", k)
        /\ \A a, b \in 1..Len(events) :
              (/\ events[a].i = events[b].i
               /\ events[a].op \in {"backward", "step", "send_train"}
               /\ events[b].op \in {"eval", "forward_val", "send_val"})
                  => a < b

\* train() returned from two batches with acc_grad_steps = 2 and
\* eval_every = 1: batch 0 validated without an optimizer step, batch 1
\* stepped and then validated.
C13_Witness ==
    /\ InTrain /\ Returned
    /\ hps.acc_grad_steps = 2 /\ hps.eval_every = 1
    /\ N = 2 /\ i = 2
    /\ Count("step", 0) = 0 /\ Count("send_val", 0) = 1
    /\ Count("step", 1) = 1 /\ Count("send_val", 1) = 1

\* ---------------------------------------------------------------------
\* The publish events of the current call, in order.
Sends ==
    SelectSeq(events, LAMBDA e : e.op \in {"send_train", "send_val", "send_test"})

SendMode(op) ==
    IF op = "send_train" THEN "train" ELSE IF op = "send_val" THEN "val" ELSE "test"

\* epochs_so_far as it was while the current call was publishing.
EpochInCall == IF InTrain /\ Returned THEN epochs_so_far - 1 ELSE epochs_so_far

C14_RecordsNow ==
    /\ Len(Sends) = Len(dash)
    /\ \A j \in 1..Len(dash) :
          /\ dash[j].mode = SendMode(Sends[j].op)
          /\ dash[j].keys # {}
          /\ \A key \in dash[j].keys : key[1] = dash[j].mode
          /\ dash[j].epoch = EpochInCall
          /\ InTrain => dash[j].step = (iters_so_far - i) + Sends[j].i
          /\ (InTrain /\ ~raised) => dash[j].step = (sum_n - N) + Sends[j].i
          /\ InTest => dash[j].step = iters_so_far
          /\ dash[j].step <= last_step
    /\ \A a, b \in 1..Len(dash) : a < b => dash[a].step <= dash[b].step

C14_PublishStep ==
    IF Len(dash') = Len(dash) + 1
    THEN LET r == dash'[Len(dash')] IN
         /\ r.step = iters_so_far
         /\ r.epoch = epochs_so_far
         /\ r.step >= last_step
         /\ last_step' = r.step
    ELSE last_step' = last_step

\* C14: every published record carries step = iters_so_far and
\* epoch = epochs_so_far as they are at the publish, and every key is
\* prefixed by the phase; over train() and test() calls the steps never
\* decrease, the 'train' and 'val' records of one batch carry the same step
\* (the batches completed before it), and the records of one test() call all
\* carry the same step.
C14_Records ==
    /\ []C14_RecordsNow
    /\ [][C14_PublishStep]_vars

\* In a second train() call a batch published both a 'train' and a 'val'
\* record, with the same non-zero step.
C14_Witness ==
    /\ InTrain /\ n_train = 2
    /\ \E a, b \in 1..Len(dash) :
          /\ dash[a].mode = "train" /\ dash[b].mode = "val"
          /\ Sends[a].i = Sends[b].i
          /\ dash[a].step = dash[b].step
          /\ dash[a].step >= 1

\* ---------------------------------------------------------------------
\* The state in which a train() call ended on the scheduler reference.
C15_AtFailure ==
    (InTrain /\ exc = "AttributeError") =>
        /\ DEBUG /\ N >= 1 /\ i = 0
        /\ Count("backward", 0) = 1
        /\ AccDue(0) => Count("step", 0) = 1
        /\ EvalDue(0) => Count("send_val", 0) = 1
        /\ (hps.acc_grad_steps > 1 /\ N > 1) => grads >= 1
        /\ training

C15_NoProgress ==
    DEBUG =>
        /\ iters_so_far' = iters_so_far
        /\ epochs_so_far' # epochs_so_far => N = 0

\* C15: with DEBUG on, the first batch of every train() call over a non-empty
\* loader fails on the scheduler reference, after its backward pass (and its
\* optimizer step and validation block when due) and before the iteration
\* counter moves: the counters never advance, the model is in train-mode at
\* the failure, and with acc_grad_steps > 1 and more than one batch the
\* gradient of that batch is left un-zeroed.
C15_DebugFailure ==
    /\ [](DEBUG => iters_so_far = 0)
    /\ []((DEBUG /\ InTrain /\ N >= 1 /\ pc = "idle") => exc # "none")
    /\ []C15_AtFailure
    /\ [][C15_NoProgress]_vars

\* ---------------------------------------------------------------------
\* C16: the 'train/loss' value published at an accumulation boundary is the
\* loss compute_loss returned for the current batch, for every
\* acc_grad_steps >= 1: the division made for the backward pass does not
\* change the published value.
C16_PublishedTrainLoss ==
    InTrain =>
        \A j \in 1..Len(dash) :
            (j <= Len(Sends) /\ dash[j].mode = "train")
                => dash[j].loss = ComputeLoss(Sends[j].i)

\* ---------------------------------------------------------------------
C17_OnePairPerBatch ==
    (InTrain /\ Returned) =>
        /\ i = N
        /\ \A k \in 0..(N - 1) : Count("backward", k) = 1
        /\ Len(SelectSeq(events, LAMBDA e : e.op = "backward")) = N

\* C17: for every finite training loader and every finite validation
\* loader, empty ones included, train() terminates: it never waits for a
\* pair that cannot come, processes one pair per training batch and stops
\* when the training loader is exhausted.
C17_TrainTerminates ==
    /\ pc # "hung"
    /\ C17_OnePairPerBatch

\* ---------------------------------------------------------------------
\* The level the environment value should give.
C18_Expected(env) ==
    IF env.kind = "int"
    THEN IF env.val < 0 THEN 0 ELSE IF env.val > 3 THEN 3 ELSE env.val
    ELSE 0

C18_LoadStep ==
    pc = "import" =>
        /\ pc' = "idle" /\ exc' = "none"
        /\ debug_lvl' = C18_Expected(debug_lvl)

C18_BranchStep ==
    pc = "dbg" =>
        IF debug_lvl >= 2
        THEN exc' = "AttributeError" /\ pc' = "idle"
        ELSE exc' = "none" /\ pc' = "zip" /\ iters_so_far' = iters_so_far + 1

\* C18: the debug level read from DEBUG_LVL at load time is an integer in
\* 0..3: unset gives 0, an integer below 0 gives 0, above 3 gives 3, and a
\* value that is no integer gives 0 without raising; the debug branch of
\* train() is taken exactly when the level is at least 2.
C18_DebugLevel ==
    /\ [](pc # "import" => debug_lvl \in 0..3)
    /\ [][C18_LoadStep /\ C18_BranchStep]_vars

\* The module was loaded with DEBUG_LVL above the range and the level is 3.
C18_Witness ==
    /\ pc = "idle"
    /\ last_call = [op |-> "import", arg |-> [kind |-> "int", val |-> MaxLvl]]
    /\ debug_lvl = 3
====
